---- MODULE Spec2Model ----
(***************************************************************************)
(* State-machine model of the App component of src/index.tsx: the notebook *)
(* store and its persistence, the study navigator, the two-step lookup     *)
(* and the tutor transcript.  One action per event handler, effect or      *)
(* promise continuation.                                                   *)
(***************************************************************************)
EXTENDS Integers, Sequences, FiniteSets, TLC

(* ------------------------------ bounds --------------------------------- *)

\* Date.now() values an entry can be stamped with (wall clock, millisecond).
MaxTime == 2
\* Lookups that may be awaiting a response at the same time.
MaxLookups == 2
\* Tutor calls that may be awaiting a response at the same time.
MaxChats == 1
\* Messages the transcript may hold before the user stops asking.
MaxTranscript == 2

\* Cards of the largest deck the study navigator is walked over.
MaxDeck == 3
MaxStories == 1
MaxBytes == 6
MaxChannels == 2

Times == 1..MaxTime

\* What the user types into the search box.
Queries == {"", "w1", "w2"}
\* The "word" values the text service may put in its answer.
Words == {"w1", "w2"}

\* What the user types into the tutor box, as sequences of characters.
ChatInputs == {<<>>, <<" ">>, <<" ", "h">>}

(* ---------------------------- JS values -------------------------------- *)

Undefined == "undefined"
Null == [null |-> TRUE]

\* obj.key of a JS object: undefined when the key is missing.
Get(obj, key) == IF key \in DOMAIN obj THEN obj[key] ELSE Undefined

\* {...a, ...b}: b's keys override a's.
Spread(a, b) == [k \in (DOMAIN a) \cup (DOMAIN b) |->
                    IF k \in DOMAIN b THEN b[k] ELSE a[k]]

RECURSIVE TrimStart(_)
TrimStart(s) == IF s # <<>> /\ Head(s) = " " THEN TrimStart(Tail(s)) ELSE s

RECURSIVE TrimEnd(_)
TrimEnd(s) == IF s # <<>> /\ s[Len(s)] = " "
              THEN TrimEnd(SubSeq(s, 1, Len(s) - 1)) ELSE s

\* String.prototype.trim
Trim(s) == TrimEnd(TrimStart(s))

(* --------------------------- localStorage ------------------------------ *)

\* A stored item is absent (getItem gives null), text that is not JSON, or
\* the JSON text of a value.
Absent == [kind |-> "absent"]
Garbage == [kind |-> "garbage"]

\* JSON.stringify(v)
Stringify(v) == [kind |-> "json", val |-> v]

\* JSON.parse(item) throws a SyntaxError on text that is not JSON.
ParseThrows(item) == item.kind = "garbage"
Parse(item) == item.val

SetupProfile == [native |-> "en", target |-> "zh"]

(* ------------------------- service responses --------------------------- *)

RequiredKeys == {"word", "definition", "examples", "usage"}

Example == [target |-> "t", native |-> "n"]

\* A well-formed answer of the text service.
Full(w) == [word |-> w, definition |-> "def", examples |-> <<Example>>,
            usage |-> "use"]

\* An answer that lacks one of the keys.
Without(obj, key) == [k \in (DOMAIN obj) \ {key} |-> obj[k]]

EmptyObject == [k \in {} |-> Undefined]

\* textResponse.text: undefined or '', text that is not JSON, or JSON text.
EmptyText == [kind |-> "empty"]

WellFormedTexts == {Stringify(Full(w)) : w \in Words}

\* Answers whose entry the result card can show and save: the well-formed
\* ones and one without a word.
SavableTexts == WellFormedTexts \cup {Stringify(Without(Full("w1"), "word"))}

MalformedTexts ==
    {Stringify(Without(Full("w1"), k)) : k \in RequiredKeys}
        \cup {Stringify(EmptyObject), EmptyText, Garbage}

\* textResponse.text || '{}'
OrEmptyObject(text) == IF text.kind = "empty" THEN Stringify(EmptyObject) ELSE text

\* Parts of an image response.
TextPart == [text |-> "caption"]
ImagePart(d) == [inlineData |-> [data |-> d]]

\* imageResponse: candidates missing, candidates[0].content.parts missing, or
\* a list of parts.
NoCandidates == [kind |-> "nocandidates"]
NoParts == [kind |-> "noparts"]
WithParts(ps) == [kind |-> "parts", parts |-> ps]

\* One failing and one succeeding image response.
SomeImageResponses == {NoCandidates, WithParts(<<ImagePart("A"), TextPart>>)}

ImageResponses ==
    {NoCandidates, NoParts, WithParts(<<>>), WithParts(<<TextPart>>),
     WithParts(<<ImagePart("A"), TextPart>>)}

\* `data:image/png;base64,${part.inlineData.data}`
DataUrl(d) == IF d = "A" THEN "data:image/png;base64,A"
              ELSE "data:image/png;base64,B"

\* The loop of lines 209-214: the last part carrying inlineData wins.
RECURSIVE ImgUrlFrom(_, _)
ImgUrlFrom(parts, imgUrl) ==
    IF parts = <<>> THEN imgUrl
    ELSE ImgUrlFrom(Tail(parts),
                    IF "inlineData" \in DOMAIN Head(parts)
                    THEN DataUrl(Head(parts).inlineData.data)
                    ELSE imgUrl)

\* imageResponse.candidates[0].content.parts throws a TypeError.
PartsThrow(resp) == resp.kind # "parts"

\* The entry literal of lines 216-222.
NewEntry(parsed, now, imgUrl, target, native) ==
    Spread(parsed, [id |-> now, imageUrl |-> imgUrl,
                    targetLang |-> target, nativeLang |-> native])

\* Tutor replies, as sequences of characters: resp.text, '' when the model
\* says nothing.
ChatReplies == {<<>>, <<"r">>}

UserMsg(text) == [role |-> "user", text |-> text]
ModelMsg(text) == [role |-> "model", text |-> text]

\* resp.text || "Sorry, I couldn't understand that."
SorryText == <<"Sorry, I couldn't understand that.">>

\* The reply without its fallback.
ReplyTextRaw(text) == text

ReplyText(text) == IF text = <<>> THEN SorryText ELSE text
ErrorText == <<"Error connecting to AI.">>

(* ---------------------------- audio decoder ---------------------------- *)

\* Byte values that build the int16 samples 0, 32767, -32768, -1 and their
\* neighbours.
Bytes == {0, 127, 128, 255}

Payloads == UNION {[1..n -> Bytes] : n \in 0..MaxBytes}

\* The divisor of line 76.
FullScale == 32768

Throws(error) == [throws |-> error]

\* A sample of a channel: the number num / den, or NaN.
Ratio(num, den) == [num |-> num, den |-> den]
NaN == [nan |-> TRUE]

\* new Int16Array(data.buffer), line 70, for an even number of bytes: sample
\* k is bytes 2k and 2k+1, low byte first, as a signed 16-bit number.
Int16Array(data) ==
    [k \in 0..(Len(data) \div 2 - 1) |->
        LET u == data[2 * k + 1] + 256 * data[2 * k + 2]
        IN  IF u >= 32768 THEN u - 65536 ELSE u]

\* An index that reads the samples channel after channel.
PlanarIndex(i, channels, channel) == channel * channels + i

\* i * numChannels + channel, line 76.
SampleIndex(i, channels, channel) == i * channels + channel

\* decodeAudioData, lines 64-80.  The Int16Array constructor throws a
\* RangeError on a buffer of odd length.  frameCount is a quotient of
\* numbers, whole or not; createBuffer takes its integer part as the length
\* and rejects a length of 0; the loop runs while i < frameCount, and a write
\* at or past the length of channelData stores nothing.
decodeAudioData(data, channels) ==
    IF Len(data) % 2 # 0
    THEN Throws("RangeError")
    ELSE LET dataInt16 == Int16Array(data)
             samples   == Len(data) \div 2
             length    == samples \div channels
         IN  IF length = 0
             THEN Throws("NotSupportedError")
             ELSE [numberOfChannels |-> channels,
                   length |-> length,
                   channelData |->
                     [channel \in 0..(channels - 1) |->
                        [i \in 0..(length - 1) |->
                           LET k == SampleIndex(i, channels, channel)
                           IN  IF i * channels >= samples THEN Ratio(0, 1)
                               ELSE IF k \in DOMAIN dataInt16
                                    THEN Ratio(dataInt16[k], FullScale)
                                    ELSE NaN]]]

(* ------------------------------ state ---------------------------------- *)

VARIABLES
    phase,             \* "boot", "hydrating", "running" or "crashed"
    storeNotebook,     \* localStorage item ai_dict_notebook
    storeSetup,        \* localStorage item ai_dict_setup
    nativeLang, targetLang, isSetup,
    query, loading, result, notebook, activeTab,
    shownLate,         \* result came from a lookup whose response arrived
                       \* after that of a lookup started later (not in the code)
    isChatOpen, chatHistory, chatInput,
    chatAbout,         \* for each message of chatHistory, the entry that was
                       \* displayed when its turn was asked (not in the code)
    currentCardIndex, isFlipped,
    lookups,           \* performLookup calls awaiting a response, oldest first
    chats,             \* sendMessage calls awaiting a response, oldest first
    story,             \* the story panel's text, line 96: Null or [text |-> t]
    stories,           \* generateStory calls awaiting a response, oldest first
    pcm,               \* decodeAudioData's data, a sequence of bytes
    numChannels,       \* decodeAudioData's numChannels
    audioBuffer        \* what decodeAudioData gave: Null before the call

storeVars == <<storeNotebook, storeSetup>>
setupVars == <<nativeLang, targetLang, isSetup>>
searchVars == <<query, loading, result, shownLate>>
chatVars == <<isChatOpen, chatHistory, chatInput, chats, chatAbout>>
studyVars == <<currentCardIndex, isFlipped>>
storyVars == <<story, stories>>
audioVars == <<pcm, numChannels, audioBuffer>>

vars == <<phase, storeVars, setupVars, searchVars, notebook, activeTab,
          chatVars, studyVars, lookups, storyVars, audioVars>>

\* No speech payload is being decoded.
Silent == pcm = <<>> /\ numChannels = 1 /\ audioBuffer = Null

\* useState initial values, lines 85-99.
Mounted ==
    /\ nativeLang = "" /\ targetLang = "" /\ isSetup = FALSE
    /\ query = "" /\ loading = FALSE /\ result = Null
    /\ shownLate = FALSE
    /\ notebook = <<>> /\ activeTab = "search"
    /\ isChatOpen = FALSE /\ chatHistory = <<>> /\ chatInput = <<>>
    /\ chatAbout = <<>>
    /\ currentCardIndex = 0 /\ isFlipped = FALSE
    /\ lookups = <<>> /\ chats = <<>>
    /\ story = Null /\ stories = <<>>
    /\ Silent

Init ==
    /\ phase = "boot"
    /\ storeNotebook \in {Absent, Garbage}
    /\ storeSetup \in {Absent, Stringify(SetupProfile)}
    /\ Mounted

(* ------------------------------ render --------------------------------- *)

\* notebook[i] with the 0-based index of the code.
Card(nb, i) == nb[i + 1]
InRange(nb, i) == 0 <= i /\ i < Len(nb)

\* The render of lines 271-668 throws a TypeError: result.examples.map on an
\* entry without examples (433), notebook[currentCardIndex] off the end
\* (543), examples[0].target on an entry with no example (557).
RenderThrowsIn(setup, tab, res, nb, idx) ==
    /\ setup
    /\ \/ tab = "search" /\ res # Null /\ "examples" \notin DOMAIN res
       \/ /\ tab = "study" /\ nb # <<>>
          /\ \/ ~InRange(nb, idx)
             \/ "examples" \notin DOMAIN Card(nb, idx)
             \/ Card(nb, idx).examples = <<>>

RenderThrows == RenderThrowsIn(isSetup, activeTab, result, notebook, currentCardIndex)

\* The render after a state change: an exception unmounts the root (there is
\* no error boundary), otherwise the app keeps running.
Commit == phase' = IF RenderThrows' THEN "crashed" ELSE "running"

\* The effect writing the notebook of the render before.
PersistStale == storeNotebook' = Stringify(notebook)

\* The effect of lines 117-119 runs after a committed render in which
\* notebook changed.
Persist ==
    storeNotebook' = IF RenderThrows' THEN storeNotebook ELSE Stringify(notebook')

(* ------------------------------ startup -------------------------------- *)

\* `if (saved)`: null and '' are falsy.
Truthy(item) == item.kind # "absent"

\* The two effects of the first commit, lines 105-119.  The first reads the
\* notebook and then the setup profile; JSON.parse throwing ends it and
\* unmounts the root before the second effect runs.  The second effect
\* closes over the first render's notebook, [].
MountEffects ==
    /\ phase = "boot"
    /\ IF Truthy(storeNotebook) /\ ParseThrows(storeNotebook)
       THEN /\ phase' = "crashed"
            /\ UNCHANGED <<storeVars, setupVars, notebook>>
       ELSE /\ notebook' = IF Truthy(storeNotebook) THEN Parse(storeNotebook)
                           ELSE notebook
            /\ IF Truthy(storeSetup)
               THEN /\ nativeLang' = Parse(storeSetup).native
                    /\ targetLang' = Parse(storeSetup).target
                    /\ isSetup' = TRUE
               ELSE UNCHANGED setupVars
            /\ storeNotebook' = Stringify(<<>>)
            /\ phase' = IF Truthy(storeNotebook) \/ Truthy(storeSetup)
                        THEN "hydrating" ELSE "running"
            /\ UNCHANGED storeSetup
    /\ UNCHANGED <<searchVars, activeTab, chatVars, studyVars, lookups,
                   storyVars, audioVars>>

\* The render of the state the first effect set, and the persist effect of
\* that commit (it writes what the store already holds when notebook was not
\* set).
Rehydrate ==
    /\ phase = "hydrating"
    /\ UNCHANGED <<storeSetup, setupVars, searchVars, notebook, activeTab,
                   chatVars, studyVars, lookups>>
    /\ Persist
    /\ UNCHANGED <<storyVars, audioVars>>
    /\ Commit

\* The page is closed and opened again: localStorage is all that survives.
Restart ==
    /\ phase' = "boot"
    /\ nativeLang' = "" /\ targetLang' = "" /\ isSetup' = FALSE
    /\ query' = "" /\ loading' = FALSE /\ result' = Null
    /\ shownLate' = FALSE
    /\ notebook' = <<>> /\ activeTab' = "search"
    /\ isChatOpen' = FALSE /\ chatHistory' = <<>> /\ chatInput' = <<>>
    /\ chatAbout' = <<>>
    /\ currentCardIndex' = 0 /\ isFlipped' = FALSE
    /\ lookups' = <<>> /\ chats' = <<>>
    /\ story' = Null /\ stories' = <<>>
    /\ UNCHANGED <<storeVars, audioVars>>

Running == phase = "running"

(* ---------------------------- setup screen ----------------------------- *)

\* The slice of LANGUAGES (lines 23-34) the user picks from.
NativeChoices == {"en"}
TargetChoices == {"zh"}

\* Line 289.
SetNativeLang(code) ==
    /\ Running /\ ~isSetup
    /\ nativeLang' = code
    /\ UNCHANGED <<storeVars, targetLang, isSetup, searchVars, notebook,
                   activeTab, chatVars, studyVars, lookups>>
    /\ UNCHANGED <<storyVars, audioVars>>
    /\ Commit

\* Line 307.
SetTargetLang(code) ==
    /\ Running /\ ~isSetup
    /\ targetLang' = code
    /\ UNCHANGED <<storeVars, nativeLang, isSetup, searchVars, notebook,
                   activeTab, chatVars, studyVars, lookups>>
    /\ UNCHANGED <<storyVars, audioVars>>
    /\ Commit

\* handleSetup, lines 127-132; the button is disabled without both codes.
HandleSetup ==
    /\ Running /\ ~isSetup
    /\ nativeLang # "" /\ targetLang # ""
    /\ storeSetup' = Stringify([native |-> nativeLang, target |-> targetLang])
    /\ isSetup' = TRUE
    /\ UNCHANGED <<storeNotebook, nativeLang, targetLang, searchVars, notebook,
                   activeTab, chatVars, studyVars, lookups>>
    /\ UNCHANGED <<storyVars, audioVars>>
    /\ Commit

\* The settings button, line 338.
OpenSettings ==
    /\ Running /\ isSetup
    /\ isSetup' = FALSE
    /\ UNCHANGED <<storeVars, nativeLang, targetLang, searchVars, notebook,
                   activeTab, chatVars, studyVars, lookups>>
    /\ UNCHANGED <<storyVars, audioVars>>
    /\ Commit

\* The navigation buttons, lines 645-665.
SetActiveTab(tab) ==
    /\ Running /\ isSetup
    /\ activeTab' = tab
    /\ UNCHANGED <<storeVars, setupVars, searchVars, notebook, chatVars,
                   studyVars, lookups>>
    /\ UNCHANGED <<storyVars, audioVars>>
    /\ Commit

(* ------------------------------ notebook ------------------------------- *)

\* notebook.some(n => n.word === word)
HasWord(nb, word) == \E i \in 1..Len(nb) : Get(nb[i], "word") = word

KeepWord(e, word) == Get(e, "word") # word
KeepId(e, id) == Get(e, "id") # id

\* notebook.filter(n => n.word !== word)
FilterWord(nb, word) == SelectSeq(nb, LAMBDA e : KeepWord(e, word))

\* notebook.filter(n => n.id !== id)
FilterId(nb, id) == SelectSeq(nb, LAMBDA e : KeepId(e, id))

\* toggle without the branch that unsaves.
toggleAlwaysAppends(nb, res) == Append(nb, res)

\* toggle with the new entry put first.
togglePrepend(nb, res) ==
    IF HasWord(nb, Get(res, "word"))
    THEN FilterWord(nb, Get(res, "word"))
    ELSE <<res>> \o nb

\* The body of the save/unsave handler, lines 402-408.
toggle(nb, res) ==
    IF HasWord(nb, Get(res, "word"))
    THEN FilterWord(nb, Get(res, "word"))
    ELSE Append(nb, res)

\* The save/unsave button of the result card.
Toggle ==
    /\ Running /\ isSetup /\ activeTab = "search" /\ result # Null
    /\ notebook' = toggle(notebook, result)
    /\ UNCHANGED <<storeSetup, setupVars, searchVars, activeTab, chatVars,
                   studyVars, lookups>>
    /\ Persist
    /\ UNCHANGED <<storyVars, audioVars>>
    /\ Commit

\* The open button of a notebook row, line 508.
OpenItem(i) ==
    /\ Running /\ isSetup /\ activeTab = "notebook"
    /\ i \in 1..Len(notebook)
    /\ result' = notebook[i]
    /\ shownLate' = FALSE
    /\ activeTab' = "search"
    /\ UNCHANGED <<storeVars, setupVars, query, loading, notebook, chatVars,
                   studyVars, lookups>>
    /\ UNCHANGED <<storyVars, audioVars>>
    /\ Commit

\* The remove button of a notebook row, line 511.
Remove(i) ==
    /\ Running /\ isSetup /\ activeTab = "notebook"
    /\ i \in 1..Len(notebook)
    /\ notebook' = FilterId(notebook, notebook[i].id)
    /\ UNCHANGED <<storeSetup, setupVars, searchVars, activeTab, chatVars,
                   studyVars, lookups>>
    /\ Persist
    /\ UNCHANGED <<storyVars, audioVars>>
    /\ Commit

(* --------------------------- study navigator --------------------------- *)

StudyShown == Running /\ isSetup /\ activeTab = "study" /\ notebook # <<>>

\* The card, line 538.
Flip ==
    /\ StudyShown
    /\ isFlipped' = ~isFlipped
    /\ UNCHANGED <<storeVars, setupVars, searchVars, notebook, activeTab,
                   chatVars, currentCardIndex, lookups>>
    /\ UNCHANGED <<storyVars, audioVars>>
    /\ Commit

\* The Previous button left enabled on the first card.
PreviousNeverDisabled == FALSE

PreviousDisabled == currentCardIndex = 0

\* The Next button disabled one card too late.
NextDisabledLate == currentCardIndex = Len(notebook)

NextDisabled == currentCardIndex = Len(notebook) - 1

\* The Previous button, lines 572-578: a disabled button fires no handler.
Previous ==
    /\ StudyShown
    /\ IF PreviousDisabled
       THEN UNCHANGED studyVars
       ELSE /\ currentCardIndex' = currentCardIndex - 1
            /\ isFlipped' = FALSE
    /\ UNCHANGED <<storeVars, setupVars, searchVars, notebook, activeTab,
                   chatVars, lookups>>
    /\ UNCHANGED <<storyVars, audioVars>>
    /\ Commit

\* The Next button, lines 579-585.
NextCard ==
    /\ StudyShown
    /\ IF NextDisabled
       THEN UNCHANGED studyVars
       ELSE /\ currentCardIndex' = currentCardIndex + 1
            /\ isFlipped' = FALSE
    /\ UNCHANGED <<storeVars, setupVars, searchVars, notebook, activeTab,
                   chatVars, lookups>>
    /\ UNCHANGED <<storyVars, audioVars>>
    /\ Commit

(* ------------------------------- lookup -------------------------------- *)

\* s with its i-th element taken out.
Drop(s, i) == SubSeq(s, 1, i - 1) \o SubSeq(s, i + 1, Len(s))

\* The search box, line 348.
SetQuery(q) ==
    /\ Running /\ isSetup /\ activeTab = "search"
    /\ query' = q
    /\ UNCHANGED <<storeVars, setupVars, loading, result, shownLate, notebook,
                   activeTab,
                   chatVars, studyVars, lookups>>
    /\ UNCHANGED <<storyVars, audioVars>>
    /\ Commit

\* performLookup up to its first await, lines 161-199, from Enter in the
\* search box (349) or the refresh button (354).  The call closes over the
\* language codes of the render it was made from.
PerformLookup ==
    /\ Running /\ isSetup /\ activeTab = "search"
    /\ loading' = TRUE
    /\ result' = Null
    /\ shownLate' = FALSE
    /\ chatHistory' = <<>>
    /\ chatAbout' = <<>>
    /\ lookups' = Append(lookups, [lookupText |-> query, stage |-> "text",
                                   parsed |-> EmptyObject,
                                   overtaken |-> FALSE,
                                   targetLang |-> targetLang,
                                   nativeLang |-> nativeLang])
    /\ UNCHANGED <<storeVars, setupVars, query, notebook, activeTab,
                   isChatOpen, chatInput, chats, studyVars>>
    /\ UNCHANGED <<storyVars, audioVars>>
    /\ Commit

\* catch and finally, lines 225-229.
LookupFails(i) ==
    /\ loading' = FALSE
    /\ lookups' = Drop(lookups, i)
    /\ UNCHANGED <<storeVars, setupVars, query, result, shownLate, notebook,
                   activeTab,
                   chatVars, studyVars>>
    /\ UNCHANGED <<storyVars, audioVars>>
    /\ Commit

\* The text request rejects.
TextRejects(i) ==
    /\ Running
    /\ i \in 1..Len(lookups) /\ lookups[i].stage = "text"
    /\ LookupFails(i)

\* The text request resolves: line 201, and the image request of 204-207.
TextResolves(i, text) ==
    /\ Running
    /\ i \in 1..Len(lookups) /\ lookups[i].stage = "text"
    /\ IF ParseThrows(OrEmptyObject(text))
       THEN LookupFails(i)
       ELSE /\ lookups' = [lookups EXCEPT ![i].stage = "image",
                                          ![i].parsed = Parse(OrEmptyObject(text))]
            /\ UNCHANGED <<storeVars, setupVars, searchVars, notebook,
                           activeTab, chatVars, studyVars>>
            /\ UNCHANGED <<storyVars, audioVars>>
            /\ Commit

\* An entry that is dropped when a later lookup is still pending.
NewestOnly(i, entry) == IF i = Len(lookups) THEN entry ELSE result

\* setResult(newEntry), line 224: what is displayed once the entry of lookup
\* i has arrived.
Arrived(i, entry) == entry

\* The pending lookups once the entry of lookup i has arrived: the lookups
\* started before it have been overtaken.
Overtake(ls, i) ==
    Drop([j \in 1..Len(ls) |->
            IF j < i THEN [ls[j] EXCEPT !.overtaken = TRUE] ELSE ls[j]], i)

\* The image request rejects.
ImageRejects(i) ==
    /\ Running
    /\ i \in 1..Len(lookups) /\ lookups[i].stage = "image"
    /\ LookupFails(i)

\* The image request resolves: lines 209-224 and the finally.
ImageResolves(i, resp, now) ==
    /\ Running
    /\ i \in 1..Len(lookups) /\ lookups[i].stage = "image"
    /\ IF PartsThrow(resp)
       THEN LookupFails(i)
       ELSE /\ result' = Arrived(i, NewEntry(lookups[i].parsed, now,
                                             ImgUrlFrom(resp.parts, ""),
                                             lookups[i].targetLang,
                                             lookups[i].nativeLang))
            /\ shownLate' = lookups[i].overtaken
            /\ loading' = FALSE
            /\ lookups' = Overtake(lookups, i)
            /\ UNCHANGED <<storeVars, setupVars, query, notebook, activeTab,
                           chatVars, studyVars>>
            /\ UNCHANGED <<storyVars, audioVars>>
            /\ Commit

(* -------------------------------- tutor -------------------------------- *)

\* The chat trigger of the result card, line 450.
OpenChat ==
    /\ Running /\ isSetup /\ activeTab = "search" /\ result # Null
    /\ isChatOpen' = TRUE
    /\ UNCHANGED <<storeVars, setupVars, searchVars, notebook, activeTab,
                   chatHistory, chatInput, chats, chatAbout, studyVars,
                   lookups>>
    /\ UNCHANGED <<storyVars, audioVars>>
    /\ Commit

ChatShown == Running /\ isSetup /\ isChatOpen /\ result # Null

\* Line 607.
CloseChat ==
    /\ ChatShown
    /\ isChatOpen' = FALSE
    /\ UNCHANGED <<storeVars, setupVars, searchVars, notebook, activeTab,
                   chatHistory, chatInput, chats, chatAbout, studyVars,
                   lookups>>
    /\ UNCHANGED <<storyVars, audioVars>>
    /\ Commit

\* The chat box, line 629.
SetChatInput(text) ==
    /\ ChatShown
    /\ chatInput' = text
    /\ UNCHANGED <<storeVars, setupVars, searchVars, notebook, activeTab,
                   isChatOpen, chatHistory, chats, chatAbout, studyVars,
                   lookups>>
    /\ UNCHANGED <<storyVars, audioVars>>
    /\ Commit

\* sendMessage up to its await, lines 232-245, from Enter in the chat box or
\* the Send button.
SendMessage ==
    /\ ChatShown
    /\ Len(chats) < MaxChats /\ Len(chatHistory) < MaxTranscript
    /\ IF Trim(chatInput) = <<>> \/ result = Null
       THEN UNCHANGED <<chatInput, chatHistory, chats, chatAbout>>
       ELSE /\ chatInput' = <<>>
            /\ chatHistory' = Append(chatHistory, UserMsg(chatInput))
            /\ chatAbout' = Append(chatAbout, result)
            /\ chats' = Append(chats, [userMsg |-> chatInput, about |-> result])
    /\ UNCHANGED <<storeVars, setupVars, searchVars, notebook, activeTab,
                   isChatOpen, studyVars, lookups>>
    /\ UNCHANGED <<storyVars, audioVars>>
    /\ Commit

\* chat.sendMessage resolves, line 246.
ChatResolves(i, text) ==
    /\ Running
    /\ i \in 1..Len(chats)
    /\ chatHistory' = Append(chatHistory, ModelMsg(ReplyText(text)))
    /\ chatAbout' = Append(chatAbout, chats[i].about)
    /\ chats' = Drop(chats, i)
    /\ UNCHANGED <<storeVars, setupVars, searchVars, notebook, activeTab,
                   isChatOpen, chatInput, studyVars, lookups>>
    /\ UNCHANGED <<storyVars, audioVars>>
    /\ Commit

\* chat.sendMessage rejects, lines 247-249.
ChatRejects(i) ==
    /\ Running
    /\ i \in 1..Len(chats)
    /\ chatHistory' = Append(chatHistory, ModelMsg(ErrorText))
    /\ chatAbout' = Append(chatAbout, chats[i].about)
    /\ chats' = Drop(chats, i)
    /\ UNCHANGED <<storeVars, setupVars, searchVars, notebook, activeTab,
                   isChatOpen, chatInput, studyVars, lookups>>
    /\ UNCHANGED <<storyVars, audioVars>>
    /\ Commit

(* -------------------------------- story -------------------------------- *)

\* Story texts, as sequences of characters: resp.text, '' when the model
\* says nothing.
StoryReplies == {<<>>, <<"s">>}

\* resp.text || "Could not generate story."
StoryFallback == <<"Could not generate story.">>
StoryText(text) == [text |-> IF text = <<>> THEN StoryFallback ELSE text]

\* A guard that lets a one-word notebook through.
TooFewWordsOffByOne(nb) == Len(nb) < 1

\* notebook.length < 2, line 253.
TooFewWords(nb) == Len(nb) < 2

\* The words of the prompt, line 256.
PromptWords(nb) == [i \in 1..Len(nb) |-> Get(nb[i], "word")]

\* The story button, line 471, is rendered in the notebook tab when the
\* notebook is not empty.
StoryButtonShown ==
    Running /\ isSetup /\ activeTab = "notebook" /\ notebook # <<>>

\* generateStory up to its await, lines 252-261.
GenerateStory ==
    /\ StoryButtonShown
    /\ IF TooFewWords(notebook)
       THEN UNCHANGED <<loading, storyVars>>
       ELSE /\ Len(stories) < MaxStories
            /\ loading' = TRUE
            /\ stories' = Append(stories, [words |-> PromptWords(notebook)])
            /\ UNCHANGED story
    /\ UNCHANGED <<storeVars, setupVars, query, result, shownLate, notebook,
                   activeTab,
                   chatVars, studyVars, lookups>>
    /\ UNCHANGED audioVars
    /\ Commit

\* The story request resolves: line 261 and the finally.
StoryResolves(i, text) ==
    /\ Running
    /\ i \in 1..Len(stories)
    /\ story' = StoryText(text)
    /\ loading' = FALSE
    /\ stories' = Drop(stories, i)
    /\ UNCHANGED <<storeVars, setupVars, query, result, shownLate, notebook,
                   activeTab,
                   chatVars, studyVars, lookups>>
    /\ UNCHANGED audioVars
    /\ Commit

\* The story request rejects: lines 262-266.
StoryRejects(i) ==
    /\ Running
    /\ i \in 1..Len(stories)
    /\ loading' = FALSE
    /\ stories' = Drop(stories, i)
    /\ UNCHANGED <<storeVars, setupVars, query, result, shownLate, notebook,
                   activeTab,
                   chatVars, studyVars, lookups, story>>
    /\ UNCHANGED audioVars
    /\ Commit

\* The close button of the story panel, line 482.
CloseStory ==
    /\ StoryButtonShown
    /\ story # Null
    /\ story' = Null
    /\ UNCHANGED <<storeVars, setupVars, searchVars, notebook, activeTab,
                   chatVars, studyVars, lookups, stories>>
    /\ UNCHANGED audioVars
    /\ Commit

(* --------------------------- specifications ---------------------------- *)

Startup == MountEffects \/ Rehydrate \/ Restart

Onboarding ==
    \/ \E code \in NativeChoices : SetNativeLang(code)
    \/ \E code \in TargetChoices : SetTargetLang(code)
    \/ HandleSetup
    \/ OpenSettings

Tabs == \E tab \in {"search", "notebook", "study"} : SetActiveTab(tab)

NotebookOps ==
    \/ Toggle
    \/ \E i \in 1..Len(notebook) : OpenItem(i)
    \/ \E i \in 1..Len(notebook) : Remove(i)

Study == Flip \/ Previous \/ NextCard

\* The user types one of `queries` and submits while fewer than `inFlight`
\* lookups are pending.
Search(queries, inFlight) ==
    \/ \E q \in queries : SetQuery(q)
    \/ Len(lookups) < inFlight /\ PerformLookup

TextService(texts) ==
    \/ \E i \in 1..Len(lookups) : TextRejects(i)
    \/ \E i \in 1..Len(lookups), text \in texts : TextResolves(i, text)

ImageService(resps, times) ==
    \/ \E i \in 1..Len(lookups) : ImageRejects(i)
    \/ \E i \in 1..Len(lookups), resp \in resps, now \in times :
          ImageResolves(i, resp, now)

Tutor ==
    \/ OpenChat
    \/ CloseChat
    \/ \E text \in ChatInputs : SetChatInput(text)
    \/ SendMessage
    \/ \E i \in 1..Len(chats), text \in ChatReplies : ChatResolves(i, text)
    \/ \E i \in 1..Len(chats) : ChatRejects(i)

Story ==
    \/ GenerateStory
    \/ CloseStory
    \/ \E i \in 1..Len(stories), text \in StoryReplies : StoryResolves(i, text)
    \/ \E i \in 1..Len(stories) : StoryRejects(i)

\* The notebook store, its persistence and the study navigator, fed by one
\* lookup at a time.
Next ==
    \/ Startup
    \/ Onboarding
    \/ Tabs
    \/ NotebookOps
    \/ Study
    \/ Search(Words, 1)
    \/ TextService(SavableTexts)
    \/ ImageService(SomeImageResponses, Times)

Spec == Init /\ [][Next]_vars

\* The app as it runs after a start on a stored setup profile and no
\* notebook.
InitRunning ==
    /\ phase = "running"
    /\ storeNotebook = Stringify(<<>>)
    /\ storeSetup = Stringify(SetupProfile)
    /\ nativeLang = SetupProfile.native /\ targetLang = SetupProfile.target
    /\ isSetup = TRUE
    /\ query = "" /\ loading = FALSE /\ result = Null
    /\ shownLate = FALSE
    /\ notebook = <<>> /\ activeTab = "search"
    /\ isChatOpen = FALSE /\ chatHistory = <<>> /\ chatInput = <<>>
    /\ chatAbout = <<>>
    /\ currentCardIndex = 0 /\ isFlipped = FALSE
    /\ lookups = <<>> /\ chats = <<>>
    /\ story = Null /\ stories = <<>>
    /\ Silent

\* The entry fetcher: concurrent lookups against every answer the two
\* services can give.
NextLookup ==
    \/ Tabs
    \/ Search(Queries, MaxLookups)
    \/ TextService(WellFormedTexts \cup MalformedTexts)
    \/ ImageService(ImageResponses, Times)

SpecLookup == InitRunning /\ [][NextLookup]_vars

\* Lookups racing each other on the search tab, each answered with a
\* well-formed text.
NextRace ==
    \/ Search(Words, MaxLookups)
    \/ TextService(WellFormedTexts)
    \/ ImageService(SomeImageResponses, Times)

SpecRace == InitRunning /\ [][NextRace]_vars

\* The tutor session next to lookups.
NextTutor ==
    \/ Tabs
    \/ Search(Words, 1)
    \/ TextService(WellFormedTexts)
    \/ ImageService(SomeImageResponses, {1})
    \/ Tutor

SpecTutor == InitRunning /\ [][NextTutor]_vars

\* The tutor session next to lookups and the notebook, from which entries
\* are opened again.
NextTranscript ==
    \/ Tabs
    \/ NotebookOps
    \/ Search(Words, 1)
    \/ TextService(WellFormedTexts)
    \/ ImageService(SomeImageResponses, {1})
    \/ Tutor

SpecTranscript == InitRunning /\ [][NextTranscript]_vars


\* The study navigator over a notebook that does not change.
DeckWords == {"w1", "w2", "w3", "w4"}

Decks ==
    {[i \in 1..Len(ws) |-> NewEntry(Full(ws[i]), i, DataUrl("A"),
                                    SetupProfile.target, SetupProfile.native)] :
        ws \in {s \in UNION {[1..n -> DeckWords] : n \in 1..MaxDeck} :
                  \A i, j \in 1..Len(s) : s[i] = s[j] => i = j}}

InitStudy ==
    /\ phase = "running"
    /\ notebook \in Decks
    /\ storeNotebook = Stringify(notebook)
    /\ storeSetup = Stringify(SetupProfile)
    /\ nativeLang = SetupProfile.native /\ targetLang = SetupProfile.target
    /\ isSetup = TRUE
    /\ query = "" /\ loading = FALSE /\ result = Null
    /\ shownLate = FALSE
    /\ activeTab = "search"
    /\ isChatOpen = FALSE /\ chatHistory = <<>> /\ chatInput = <<>>
    /\ chatAbout = <<>>
    /\ currentCardIndex = 0 /\ isFlipped = FALSE
    /\ lookups = <<>> /\ chats = <<>>
    /\ story = Null /\ stories = <<>>
    /\ Silent

NextStudy == Tabs \/ Study

SpecStudy == InitStudy /\ [][NextStudy]_vars

\* The story teller over a notebook that only shrinks.
NextStory ==
    \/ Tabs
    \/ \E i \in 1..Len(notebook) : Remove(i)
    \/ Story

SpecStory == InitStudy /\ [][NextStory]_vars

\* The audio decoder applied to every payload of up to MaxBytes bytes and
\* every channel count up to MaxChannels.
InitAudio ==
    /\ phase = "running"
    /\ storeNotebook = Stringify(<<>>)
    /\ storeSetup = Stringify(SetupProfile)
    /\ nativeLang = SetupProfile.native /\ targetLang = SetupProfile.target
    /\ isSetup = TRUE
    /\ query = "" /\ loading = FALSE /\ result = Null
    /\ shownLate = FALSE
    /\ notebook = <<>> /\ activeTab = "search"
    /\ isChatOpen = FALSE /\ chatHistory = <<>> /\ chatInput = <<>>
    /\ chatAbout = <<>>
    /\ currentCardIndex = 0 /\ isFlipped = FALSE
    /\ lookups = <<>> /\ chats = <<>>
    /\ story = Null /\ stories = <<>>
    /\ pcm \in Payloads
    /\ numChannels \in 1..MaxChannels
    /\ audioBuffer = Null

DecodeAudioData ==
    /\ audioBuffer = Null
    /\ audioBuffer' = decodeAudioData(pcm, numChannels)
    /\ UNCHANGED <<phase, storeVars, setupVars, searchVars, notebook,
                   activeTab, chatVars, studyVars, lookups, storyVars,
                   pcm, numChannels>>

NextAudio == DecodeAudioData

SpecAudio == InitAudio /\ [][NextAudio]_vars

(* ------------------------------- claims -------------------------------- *)

\* C1: whenever the notebook is non-empty, currentCardIndex is a valid index
\* of it, whatever mix of next/previous and notebook mutations came before.
C1_IndexInBounds ==
    notebook # <<>> => InRange(notebook, currentCardIndex)

\* C2: over a notebook of fixed size N >= 1, every step leaves the index in
\* [0, N-1]; next moves one card up and stays at N-1, previous moves one card
\* down and stays at 0.
C2_NavSaturates ==
    [][/\ InRange(notebook', currentCardIndex')
       /\ NextCard =>
            currentCardIndex' = IF currentCardIndex = Len(notebook) - 1
                                THEN currentCardIndex
                                ELSE currentCardIndex + 1
       /\ Previous =>
            currentCardIndex' = IF currentCardIndex = 0
                                THEN 0
                                ELSE currentCardIndex - 1]_vars

\* C2 witness: the last card of a three-card deck is shown.
C2_AtLastCard ==
    activeTab = "study" /\ Len(notebook) = 3 /\ currentCardIndex = 2

\* C3 as stated: toggling the displayed entry twice in a row gives back the
\* notebook as it was, whether or not its word was saved before.
C3_ToggleTwiceRestores ==
    (Running /\ result # Null) =>
        toggle(toggle(notebook, result), result) = notebook

\* C3 as amended: a toggle of an entry whose word is not saved appends exactly
\* that entry at the end, and a second toggle then gives back the notebook as
\* it was; a toggle of an entry whose word is saved removes the entries with
\* that word, keeps the others in order, and a second toggle appends the
\* entry at the end.
C3_ToggleAppendsOrRemoves ==
    [][Toggle =>
         IF HasWord(notebook, Get(result, "word"))
         THEN /\ notebook' = FilterWord(notebook, Get(result, "word"))
              /\ toggle(notebook', result) = Append(notebook', result)
         ELSE /\ notebook' = Append(notebook, result)
              /\ toggle(notebook', result) = notebook]_vars

\* C3 witness: the displayed entry was saved behind another one.
C3_SavedAtEnd ==
    Len(notebook) >= 2 /\ notebook[Len(notebook)] = result

\* C4: no two entries of the notebook have the same word.
C4_UniqueByWord ==
    \A i, j \in 1..Len(notebook) :
        Get(notebook[i], "word") = Get(notebook[j], "word") => i = j

\* C4 witness: two words are saved and the displayed entry is a newer lookup
\* of one of them.
C4_SavedWordLookedUpAgain ==
    /\ Len(notebook) = 2
    /\ Running /\ activeTab = "search" /\ result # Null
    /\ HasWord(notebook, Get(result, "word"))
    /\ \A i \in 1..Len(notebook) : notebook[i] # result

\* C5: a text answer that is empty, is not JSON or lacks a required key ends
\* the lookup with the result untouched and without an image request.
C5_MalformedTextAborts ==
    [][\A i \in 1..Len(lookups) :
         \A text \in MalformedTexts :
            TextResolves(i, text) =>
                result' = result /\ lookups' = Drop(lookups, i)]_vars

\* C6: when the image request fails, or answers without candidates or parts,
\* the lookup still shows an entry with the text fields and an empty
\* imageUrl.
C6_ImageFailureDegrades ==
    [][\A i \in 1..Len(lookups) :
         (\/ ImageRejects(i)
          \/ \E now \in Times : ImageResolves(i, NoCandidates, now)
          \/ \E now \in Times : ImageResolves(i, NoParts, now))
         => /\ result' # Null
            /\ Get(result', "imageUrl") = ""
            /\ \A k \in DOMAIN lookups[i].parsed :
                  Get(result', k) = lookups[i].parsed[k]]_vars

\* C7: the stored notebook is the notebook in memory after every step of the
\* running app, and a start on a stored notebook B loads exactly B (the
\* write that follows then stores B again).
C7_PersistedInStep ==
    [][/\ phase' = "running" => storeNotebook' = Stringify(notebook')
       /\ (MountEffects /\ storeNotebook.kind = "json")
            => Stringify(notebook') = storeNotebook]_vars

\* C7 witness: a start on a stored notebook of two entries, between the
\* first effects and the write of the loaded notebook.
C7_Hydrating ==
    phase = "hydrating" /\ Len(notebook) = 2

\* C8: a start on an absent or unparseable notebook item leaves the notebook
\* empty, does not crash and still reads the setup profile.
C8_BadBlobStartsEmpty ==
    [][(MountEffects /\ (~Truthy(storeNotebook) \/ ParseThrows(storeNotebook)))
         => /\ phase' # "crashed"
            /\ notebook' = <<>>
            /\ Truthy(storeSetup) => isSetup']_vars

Last(s) == s[Len(s)]

\* C9: the transcript grows one message at a time.  A user message is never
\* blank and goes in together with the request; a model message goes in
\* when one pending request ends: the reply, or a fallback when the reply is
\* empty or the request failed.
C9_TutorTurn ==
    [][/\ \/ chatHistory' = chatHistory /\ chats' = chats
          \/ chatHistory' = <<>> /\ chats' = chats
          \/ /\ chatHistory' = Append(chatHistory, Last(chatHistory'))
             /\ \/ /\ Last(chatHistory').role = "user"
                   /\ Trim(Last(chatHistory').text) # <<>>
                   /\ result # Null
                   /\ chats' = Append(chats, [userMsg |-> Last(chatHistory').text,
                                              about |-> result])
                \/ /\ Last(chatHistory').role = "model"
                   /\ Last(chatHistory').text # <<>>
                   /\ \E i \in 1..Len(chats) : chats' = Drop(chats, i)
       /\ \A i \in 1..Len(chats) :
            /\ ChatRejects(i) => Last(chatHistory') = ModelMsg(ErrorText)
            /\ \A text \in ChatReplies :
                 ChatResolves(i, text) =>
                    Last(chatHistory') =
                        ModelMsg(IF text = <<>> THEN SorryText ELSE text)]_vars

\* C9 witness: a question whose request failed, answered by the fallback.
C9_FallbackShown ==
    /\ Len(chatHistory) = 2
    /\ chatHistory[1].role = "user"
    /\ chatHistory[2] = ModelMsg(ErrorText)
    /\ chats = <<>>

C11_WordIsQuery ==
    [][\A i \in 1..Len(lookups) : \A resp \in ImageResponses, now \in Times :
         (ImageResolves(i, resp, now) /\ ~PartsThrow(resp))
            => Get(result', "word") = lookups[i].lookupText]_vars

\* C12: with fewer than 2 notebook entries the story button issues no
\* request and leaves story and loading as they are.
C12_NoStoryBelowTwo ==
    [][(GenerateStory /\ Len(notebook) < 2)
         => UNCHANGED <<story, loading, stories>>]_vars

\* C12 witness: the story button on a notebook of one entry, nothing
\* pending.
C12_ButtonOverOneWord ==
    /\ StoryButtonShown
    /\ Len(notebook) = 1
    /\ stories = <<>> /\ ~loading

C14_Decoded ==
    /\ DOMAIN audioBuffer = {"numberOfChannels", "length", "channelData"}
    /\ audioBuffer.numberOfChannels = numChannels
    /\ audioBuffer.length = (Len(pcm) \div 2) \div numChannels
    /\ DOMAIN audioBuffer.channelData = 0..(numChannels - 1)
    /\ \A c \in 0..(numChannels - 1) :
          /\ DOMAIN audioBuffer.channelData[c] = 0..(audioBuffer.length - 1)
          /\ \A i \in 0..(audioBuffer.length - 1) :
                audioBuffer.channelData[c][i] =
                    Ratio(Int16Array(pcm)[i * numChannels + c], FullScale)

C15_TranscriptOfShownEntry ==
    (Running /\ result # Null) =>
        \A k \in 1..Len(chatHistory) : chatAbout[k] = result

\* C16: every response that completes a lookup puts the entry of that
\* lookup on display, whatever is displayed then and whether or not the
\* lookup was the last one started; so of two lookups in flight at once the
\* one whose response arrives last is the one displayed.
C16_LastArrivalShown ==
    [][\A i \in 1..Len(lookups) : \A resp \in ImageResponses, now \in Times :
         (ImageResolves(i, resp, now) /\ ~PartsThrow(resp))
            => result' = NewEntry(lookups[i].parsed, now,
                                  ImgUrlFrom(resp.parts, ""),
                                  lookups[i].targetLang,
                                  lookups[i].nativeLang)]_vars

\* C16 witness: two lookups were in flight at once, both have resolved, and
\* the entry displayed is that of the one started first.
C16_OlderArrivedLast ==
    Running /\ lookups = <<>> /\ result # Null /\ shownLate

====
